---------------------------- MODULE Spec2Model ----------------------------
(***************************************************************************)
(* The in-memory job queue of app/lib/utils/queue.js (class JobQueue).     *)
(*                                                                         *)
(* One JobQueue instance is modelled.  Job objects live in a heap (`heap`) *)
(* and the four arrays of the queue hold references (job indices) to them, *)
(* as the JavaScript arrays do.  One step of the model is one turn of the  *)
(* event loop: a public call (process, add, cleanup), the continuation of  *)
(* an awaited handler promise, a setTimeout callback, or the passing of    *)
(* time.  Everything a turn runs synchronously (the whole scheduler loop   *)
(* of startProcessing, the synchronous prefix of processJob) is part of    *)
(* that step.                                                              *)
(*                                                                         *)
(* Time.  The code stores Date objects (completedAt, failedAt) and compares*)
(* them with Date.now() - maxAge; setTimeout counts a duration down.  The  *)
(* model keeps, instead of the absolute instants, the distances to the     *)
(* present: completedAgo = Date.now() - completedAt, failedAgo likewise,   *)
(* and for a timer the time it still has to run.  `job.completedAt <       *)
(* cutoff` is then `completedAgo > maxAge`.  Distances stop growing at     *)
(* AgeCap, above every maxAge that cleanup is called with, so that the     *)
(* comparisons of the code keep their value and the state space is finite  *)
(* without a bound on the clock.                                           *)
(*                                                                         *)
(* The caches of app/lib/utils/logger.js (class MemoryCache, withCache,    *)
(* getCachedUser, getCachedStory) are modelled next to the queue, with     *)
(* their own variables and their own specification, SpecCache; the steps   *)
(* of the queue leave them as they are.                                    *)
(***************************************************************************)
EXTENDS Integers, Sequences, FiniteSets, TLC

(* ------------------------------ bounds --------------------------------- *)
\* number of add() calls in a behaviour
MaxJobs == 2

(* --------------------------- input domains ----------------------------- *)
\* the factor of the retry delay, in ms (Math.pow(2, attempts) * 1000)
BackoffMs == 1000
\* granularity of the modelled clock, in ms: the shortest retry delay
TickMs == 2 * BackoffMs
\* options.maxAttempts || 3
DefaultMaxAttempts == 3
\* values of the constructor's concurrency argument
Concurrencies == {1, 2}
\* job types
Types == {"a"}
\* handlers that process() may register: an async function, whose failures
\* are promise rejections, and a plain function that throws synchronously
HandlerIds == {"hAsync", "hThrow"}
NoHandler == "undefined"
\* values of options.priority, options.maxAttempts, options.delay; Absent
\* stands for a key that the options object does not have
Absent == -1
PriorityOpts == {Absent, 5}
MaxAttemptsOpts == {Absent, 1}
DelayOpts == {Absent, TickMs}
\* priorities of the jobs of a loaded queue
LoadPriorities == {1, 3, 5}
\* values of cleanup's maxAge argument
MaxAges == {0}
\* where the distances to the present stop growing
AgeCap == TickMs

\* an undefined timestamp / field of a job object
NoTime == -1
Undefined == "undefined"
BoomMsg == "boom"
NoHandlerMsg == "No handler registered for job type"

VARIABLES
    concurrency,  \* this.concurrency
    heap,         \* the job objects, by index of creation
    jobs,         \* this.jobs: waiting jobs (references into heap)
    processing,   \* this.processing
    completed,    \* this.completed
    failed,       \* this.failed
    isProcessing, \* this.isProcessing
    handlers,     \* this.handlers
    timers,       \* pending setTimeout callbacks of startProcessing
    awaiting,     \* processJob activations suspended at `await handler(...)`
    invocations,  \* history: number of handler calls per job
    waited,       \* history: ms a job has spent waiting since its last
                  \* failure or, added with a delay, since it was added
    thrown,       \* history: the message of the last error thrown for a job
    added,        \* history: the options object each job was added with
    started,      \* history: jobs in the order of their first processJob
    statuses,     \* history: the values assigned to each job's status
    now,          \* Date.now() as the cache code reads it, in ms
    caches,       \* the MemoryCache instances userCache and storyCache
    fetching,     \* withCache activations suspended at `await fetcher()`
    written,      \* history: the last set() of each key that no delete()
                  \* or clear() has followed
    lastOp        \* history: the last call on a cache and what it returned

\* the state of the caches of the module and of their callers
cacheVars == <<now, caches, fetching, written, lastOp>>

\* the state of the queue
queueVars == <<concurrency, heap, jobs, processing, completed, failed,
               isProcessing, handlers, timers, awaiting, invocations, waited,
               thrown, added, started, statuses>>

vars == <<queueVars, cacheVars>>

\* The queue object, the heap and the environment as one value, on which the
\* synchronous code of a turn operates.
State == [concurrency |-> concurrency, heap |-> heap,
          jobs |-> jobs, processing |-> processing, completed |-> completed,
          failed |-> failed, isProcessing |-> isProcessing,
          handlers |-> handlers, timers |-> timers, awaiting |-> awaiting,
          invocations |-> invocations, waited |-> waited,
          thrown |-> thrown, added |-> added, started |-> started,
          statuses |-> statuses]

Install(q) ==
    /\ concurrency' = q.concurrency
    /\ heap' = q.heap
    /\ jobs' = q.jobs
    /\ processing' = q.processing
    /\ completed' = q.completed
    /\ failed' = q.failed
    /\ isProcessing' = q.isProcessing
    /\ handlers' = q.handlers
    /\ timers' = q.timers
    /\ awaiting' = q.awaiting
    /\ invocations' = q.invocations
    /\ waited' = q.waited
    /\ thrown' = q.thrown
    /\ added' = q.added
    /\ started' = q.started
    /\ statuses' = q.statuses
    /\ UNCHANGED cacheVars

(* ------------------------------ helpers -------------------------------- *)
RECURSIVE Pow2(_)
\* Math.pow(2, n)
Pow2(n) == IF n <= 0 THEN 1 ELSE 2 * Pow2(n - 1)

\* array.unshift(x)
Unshift(s, x) == <<x>> \o s

\* whether x occurs in the array s
InSeq(s, x) == \E i \in 1..Len(s) : s[i] = x

RECURSIVE InsertBeforeEqual(_, _, _)
\* InsertByPriority with a comparison that moves x before its equals
InsertBeforeEqual(s, x, h) ==
    IF s = <<>> THEN <<x>>
    ELSE IF h[x].priority - h[Head(s)].priority >= 0
         THEN <<x>> \o s
         ELSE <<Head(s)>> \o InsertBeforeEqual(Tail(s), x, h)

RECURSIVE InsertByPriority(_, _, _)
\* insert reference x into the sorted sequence s behind every element that
\* does not compare greater (b.priority - a.priority <= 0 keeps the order)
InsertByPriority(s, x, h) ==
    IF s = <<>> THEN <<x>>
    ELSE IF h[x].priority - h[Head(s)].priority > 0
         THEN <<x>> \o s
         ELSE <<Head(s)>> \o InsertByPriority(Tail(s), x, h)

RECURSIVE SortByPriority(_, _)
\* this.jobs.sort((a, b) => b.priority - a.priority): Array.prototype.sort
\* is stable, elements that compare equal keep their relative order
SortByPriority(s, h) ==
    IF s = <<>> THEN <<>>
    ELSE InsertByPriority(SortByPriority(SubSeq(s, 1, Len(s) - 1), h),
                          s[Len(s)], h)

(* ------------------------------- add ----------------------------------- *)
\* options.key || dflt: the default also replaces a falsy (0) value
OrElse(options, key, dflt) ==
    IF key \in DOMAIN options /\ options[key] # 0 THEN options[key] ELSE dflt

\* { ...base, ...options }: the keys of options override those of base
Spread(base, options) ==
    [k \in DOMAIN base |->
        IF k \in DOMAIN options THEN options[k] ELSE base[k]]

\* the options object with the keys whose value is not Absent
OptionsOf(p, m, d) ==
    [k \in {x \in {"priority"} : p # Absent}
           \cup {x \in {"maxAttempts"} : m # Absent}
           \cup {x \in {"delay"} : d # Absent} |->
        CASE k = "priority" -> p
          [] k = "maxAttempts" -> m
          [] OTHER -> d]

\* the options objects add() is called with
AllOptions ==
    {OptionsOf(p, m, d) : p \in PriorityOpts, m \in MaxAttemptsOpts,
                          d \in DelayOpts}
\* options without a priority
PlainOptions ==
    {OptionsOf(Absent, m, d) : m \in MaxAttemptsOpts, d \in DelayOpts}
\* options of jobs that get one attempt
LoadOptions == {OptionsOf(p, 1, d) : p \in LoadPriorities, d \in DelayOpts}

\* the job object literal of add (createdAt, startedAt, data and errorStack
\* are not modelled; the fields a job gets later start undefined)
NewJob(id, jobType, options) ==
    Spread([id |-> id,
            type |-> jobType,
            status |-> "waiting",
            priority |-> OrElse(options, "priority", 0),
            attempts |-> 0,
            maxAttempts |-> OrElse(options, "maxAttempts", DefaultMaxAttempts),
            delay |-> OrElse(options, "delay", 0),
            completedAgo |-> NoTime,
            failedAgo |-> NoTime,
            result |-> Undefined,
            error |-> Undefined],
           options)

(* ----------------------- processJob / startProcessing ------------------ *)
\* WithoutJob with === for !==
OnlyJob(s, h, j) == SelectSeq(s, LAMBDA x : h[x].id = h[j].id)

\* this.processing.filter(j => j.id !== job.id)
WithoutJob(s, h, j) == SelectSeq(s, LAMBDA x : h[x].id # h[j].id)

\* the value the handler hid resolves with
ResultOf(hid) == <<"ok", hid>>

\* RetryDelay with the exponent one too small
RetryDelayOffByOne(attempts) == Pow2(attempts - 1) * BackoffMs

\* job.delay = Math.pow(2, job.attempts) * 1000
RetryDelay(attempts) == Pow2(attempts) * BackoffMs

RECURSIVE StartProcessing(_), SchedulerLoop(_), ProcessJob(_, _)

\* RetryBranch that leaves the job in processing
RetryBranchKeep(q, j) ==
    LET h2 == [q.heap EXCEPT ![j].delay = RetryDelay(q.heap[j].attempts),
                             ![j].status = "waiting"]
    IN [q EXCEPT !.heap = h2,
                 !.statuses[j] = Append(@, "waiting"),
                 !.jobs = Unshift(q.jobs, j)]

\* the branch of the catch block for a job that has attempts left
RetryBranch(q, j) ==
    LET h2 == [q.heap EXCEPT ![j].delay = RetryDelay(q.heap[j].attempts),
                             ![j].status = "waiting"]
    IN [q EXCEPT !.heap = h2,
                 !.statuses[j] = Append(@, "waiting"),
                 !.processing = WithoutJob(q.processing, h2, j),
                 !.jobs = Unshift(q.jobs, j)]

\* the branch of the catch block for a job that has used its attempts
FailBranch(q, j) ==
    LET h2 == [q.heap EXCEPT ![j].status = "failed", ![j].failedAgo = 0]
    IN [q EXCEPT !.heap = h2,
                 !.statuses[j] = Append(@, "failed"),
                 !.waited[j] = NoTime,
                 !.processing = WithoutJob(q.processing, h2, j),
                 !.failed = Append(q.failed, j)]

\* job.error = error.message
RecordError(job, message) == [job EXCEPT !.error = message]

\* Exhausted with > for >=
ExhaustedLate(job) == job.attempts > job.maxAttempts

\* if (job.attempts >= job.maxAttempts)
Exhausted(job) == job.attempts >= job.maxAttempts

\* the catch block of processJob followed by the trailing startProcessing()
CatchBlock(q, j, message) ==
    LET h1 == [q.heap EXCEPT
                 ![j] = RecordError([@ EXCEPT !.attempts = @ + 1], message)]
        q1 == [q EXCEPT !.heap = h1, !.waited[j] = 0]
    IN StartProcessing(IF Exhausted(h1[j])
                       THEN FailBranch(q1, j)
                       ELSE RetryBranch(q1, j))

\* an error with this message is thrown inside the try block of processJob
Throw(q, j, message) ==
    CatchBlock([q EXCEPT !.thrown[j] = message], j, message)

\* the code of processJob after a fulfilled `await handler(...)`, followed by
\* the trailing startProcessing()
SuccessBlock(q, j, result) ==
    LET h1 == [q.heap EXCEPT ![j].status = "completed",
                             ![j].result = result,
                             ![j].completedAgo = 0]
    IN StartProcessing([q EXCEPT !.heap = h1,
                                 !.statuses[j] = Append(@, "completed"),
                                 !.waited[j] = NoTime,
                                 !.processing = WithoutJob(q.processing, h1, j),
                                 !.completed = Append(q.completed, j)])

\* processJob(job) up to the point where it suspends or returns: the job
\* enters processing, the handler is looked up and called; a missing handler
\* and a handler that throws synchronously run the catch block in this turn
ProcessJob(q, j) ==
    LET q1 == [q EXCEPT !.processing = Append(q.processing, j),
                        !.heap[j].status = "processing",
                        !.statuses[j] = Append(@, "processing"),
                        !.started = IF InSeq(q.started, j) THEN @
                                    ELSE Append(@, j)]
        handler == q1.handlers[q1.heap[j].type]
        called == [q1 EXCEPT !.invocations[j] = @ + 1]
    IN  IF handler = NoHandler THEN Throw(q1, j, NoHandlerMsg)
        ELSE IF handler = "hThrow" THEN Throw(called, j, BoomMsg)
        ELSE [called EXCEPT
                !.awaiting = Append(called.awaiting,
                                    [job |-> j, handler |-> handler])]

\* HasSlot with <= for <
HasSlotOffByOne(q) == Len(q.jobs) > 0 /\ Len(q.processing) <= q.concurrency

\* while (this.jobs.length > 0 && this.processing.length < this.concurrency)
HasSlot(q) == Len(q.jobs) > 0 /\ Len(q.processing) < q.concurrency

RECURSIVE SchedulerLoopBlocking(_)
\* SchedulerLoop with break for continue: a delayed job ends the pass
SchedulerLoopBlocking(queue) ==
    LET Loop(q) ==
          IF HasSlot(q)
          THEN LET j == Head(q.jobs)
                   q1 == [q EXCEPT !.jobs = Tail(q.jobs)]
               IN IF q1.heap[j].delay > 0
                  THEN [q1 EXCEPT !.timers =
                           Append(q1.timers,
                                  [job |-> j, left |-> q1.heap[j].delay])]
                  ELSE SchedulerLoopBlocking(ProcessJob(q1, j))
          ELSE q
    IN CHOOSE r \in {Loop(q) : q \in {queue}} : TRUE

RECURSIVE SchedulerLoopEager(_)
\* SchedulerLoop without the test of job.delay
SchedulerLoopEager(queue) ==
    LET Loop(q) ==
          IF HasSlot(q)
          THEN LET j == Head(q.jobs)
                   q1 == [q EXCEPT !.jobs = Tail(q.jobs)]
               IN SchedulerLoopEager(ProcessJob(q1, j))
          ELSE q
    IN CHOOSE r \in {Loop(q) : q \in {queue}} : TRUE

\* the while loop of startProcessing (the queue the loop starts from is
\* evaluated once, bound to q, before the loop runs)
SchedulerLoop(queue) ==
    LET Loop(q) ==
          IF HasSlot(q)
          THEN LET j == Head(q.jobs)
                   q1 == [q EXCEPT !.jobs = Tail(q.jobs)]
               IN IF q1.heap[j].delay > 0
                  THEN SchedulerLoop(
                         [q1 EXCEPT !.timers =
                             Append(q1.timers,
                                    [job |-> j, left |-> q1.heap[j].delay])])
                  ELSE SchedulerLoop(ProcessJob(q1, j))
          ELSE q
    IN CHOOSE r \in {Loop(q) : q \in {queue}} : TRUE

\* StartProcessing without the final this.isProcessing = false
StartProcessingStuck(queue) ==
    LET Run(q) ==
          IF q.isProcessing THEN q
          ELSE SchedulerLoop([q EXCEPT !.isProcessing = TRUE])
    IN CHOOSE r \in {Run(q) : q \in {queue}} : TRUE

\* startProcessing(): it has no await, so it runs to its end in the turn
\* that calls it
StartProcessing(queue) ==
    LET Run(q) ==
          IF q.isProcessing THEN q
          ELSE [SchedulerLoop([q EXCEPT !.isProcessing = TRUE])
                  EXCEPT !.isProcessing = FALSE]
    IN CHOOSE r \in {Run(q) : q \in {queue}} : TRUE

\* Enqueue without the sort
EnqueueUnsorted(s, j, h) == Append(s, j)

\* this.jobs.push(job); this.jobs.sort(...)
Enqueue(s, j, h) == SortByPriority(Append(s, j), h)

\* add(jobType, data, options)
AddJob(q, jobType, options) ==
    LET j == Len(q.heap) + 1
        h1 == Append(q.heap, NewJob(j, jobType, options))
    IN StartProcessing([q EXCEPT !.heap = h1,
                                 !.invocations = Append(q.invocations, 0),
                                 !.waited =
                                     Append(q.waited,
                                            IF h1[j].delay > 0 THEN 0
                                            ELSE NoTime),
                                 !.thrown = Append(q.thrown, Undefined),
                                 !.added = Append(q.added, options),
                                 !.statuses =
                                     Append(q.statuses, <<h1[j].status>>),
                                 !.jobs = Enqueue(q.jobs, j, h1)])

\* TimerCallback without the call of startProcessing
TimerCallbackNoRestart(q, j) ==
    LET q1 == [q EXCEPT !.heap[j].delay = 0]
    IN [q1 EXCEPT !.jobs = Unshift(q1.jobs, j)]

\* the setTimeout callback of startProcessing
TimerCallback(q, j) ==
    LET q1 == [q EXCEPT !.heap[j].delay = 0]
    IN StartProcessing([q1 EXCEPT !.jobs = Unshift(q1.jobs, j)])

(* ------------------------------ cleanup -------------------------------- *)
\* job.completedAt < cutoff, with cutoff = Date.now() - maxAge
CompletedBefore(job, maxAge) == job.completedAgo > maxAge
\* job.failedAt < cutoff
FailedBefore(job, maxAge) == job.failedAgo > maxAge
\* CompletedSince with > for >=
CompletedAfter(job, maxAge) == job.completedAgo < maxAge

\* job.completedAt >= cutoff
CompletedSince(job, maxAge) == job.completedAgo <= maxAge
\* job.failedAt >= cutoff
FailedSince(job, maxAge) == job.failedAgo <= maxAge

OldCompleted(q, maxAge) ==
    SelectSeq(q.completed, LAMBDA x : CompletedBefore(q.heap[x], maxAge))
OldFailed(q, maxAge) ==
    SelectSeq(q.failed, LAMBDA x : FailedBefore(q.heap[x], maxAge))
\* KeptCompleted without the filter
KeptCompletedAll(q, maxAge) == q.completed

KeptCompleted(q, maxAge) ==
    SelectSeq(q.completed, LAMBDA x : CompletedSince(q.heap[x], maxAge))
KeptFailed(q, maxAge) ==
    SelectSeq(q.failed, LAMBDA x : FailedSince(q.heap[x], maxAge))

\* cleanup(maxAge): the queue it leaves and the number it returns
CleanupJobs(q, maxAge) ==
    [queue |-> [q EXCEPT !.completed = KeptCompleted(q, maxAge),
                         !.failed = KeptFailed(q, maxAge)],
     cleaned |-> Len(OldCompleted(q, maxAge)) + Len(OldFailed(q, maxAge))]

(* -------------------------- getStats / getJob -------------------------- *)
\* the name the queue was constructed with
QueueName == "story_generation"

\* GetStats that reports the processing jobs as waiting
GetStatsMixedUp(q) ==
    [name |-> QueueName,
     waiting |-> Len(q.processing),
     processing |-> Len(q.processing),
     completed |-> Len(q.completed),
     failed |-> Len(q.failed),
     concurrency |-> q.concurrency]

\* getStats()
GetStats(q) ==
    [name |-> QueueName,
     waiting |-> Len(q.jobs),
     processing |-> Len(q.processing),
     completed |-> Len(q.completed),
     failed |-> Len(q.failed),
     concurrency |-> q.concurrency]

\* [...this.jobs, ...this.processing, ...this.completed, ...this.failed]
AllJobs(q) == q.jobs \o q.processing \o q.completed \o q.failed

\* the result of a lookup that finds no job, and of one that finds job
NotFound == <<>>
Found(job) == <<job>>

\* array.find(job => job.id === jobId): the first such job, or undefined
Find(s, h, jobId) ==
    IF \E i \in 1..Len(s) : h[s[i]].id = jobId
    THEN Found(h[s[CHOOSE i \in 1..Len(s) :
                       /\ h[s[i]].id = jobId
                       /\ \A k \in 1..(i - 1) : h[s[k]].id # jobId]])
    ELSE NotFound

\* getJob(jobId)
GetJob(q, jobId) == Find(AllJobs(q), q.heap, jobId)

(* -------------------------------- time --------------------------------- *)
RemoveAt(s, i) == SubSeq(s, 1, i - 1) \o SubSeq(s, i + 1, Len(s))

\* where the time a job has waited since its last failure stops growing:
\* at twice BackoffMs after the first failure, and at twice as much after
\* each further one
WaitCap(attempts) == Pow2(attempts) * BackoffMs

\* where the time job j has waited stops growing: for a job that has not
\* failed, at the delay it was added with
WaitLimit(j) ==
    IF heap[j].attempts = 0 THEN OrElse(added[j], "delay", 0)
    ELSE WaitCap(heap[j].attempts)

\* a distance to the present after TickMs more, NoTime staying undefined
Older(ago, cap) ==
    IF ago = NoTime THEN NoTime
    ELSE IF ago + TickMs > cap THEN cap ELSE ago + TickMs

(* ------------------------------ the caches ----------------------------- *)
\* app/lib/utils/logger.js: class MemoryCache, its instances userCache and
\* storyCache, and withCache with its callers getCachedUser and
\* getCachedStory.  Date.now() is the variable `now`, in ms.

\* the instants at which the caches are called
Instants == {0, 300, 301, 1800, 1801, 300000, 300001}
\* the null that get returns for a miss and withCache compares with
Null == "null"
\* what a getCached call returns to its caller while the fetcher runs
Pending == "pending"
\* the values that are cached
Values == {"v1", "v2"}
UserIds == {"u1"}
StoryIds == {"s1"}

\* new Map()
EmptyMap == <<>>
\* Map.set(key, item)
MapSet(m, key, item) ==
    [k \in DOMAIN m \cup {key} |-> IF k = key THEN item ELSE m[k]]
\* Map.delete(key)
MapDelete(m, key) == [k \in DOMAIN m \ {key} |-> m[k]]

\* new MemoryCache(defaultTTL)
MemoryCache(defaultTTL) ==
    [cache |-> EmptyMap, defaultTTL |-> defaultTTL * 1000]

\* generateCacheKey(prefix, ...parts) for two parts
GenerateCacheKey(prefix, part, suffix) ==
    prefix \o ":" \o part \o ":" \o suffix
\* userCacheKey(userId), storyCacheKey(storyId)
UserCacheKey(userId) == GenerateCacheKey("user", userId, "")
StoryCacheKey(storyId) == GenerateCacheKey("story", storyId, "")

\* the keys used with each instance
KeysOf ==
    [userCache |-> {UserCacheKey(u) : u \in UserIds},
     storyCache |-> {StoryCacheKey(i) : i \in StoryIds}]
CacheNames == DOMAIN KeysOf
Keys == UNION {KeysOf[n] : n \in CacheNames}

\* set(key, value, ttl = this.defaultTTL): the default stands in for an
\* argument that is undefined
TtlOrDefault(c, ttl) == IF ttl = Absent THEN c.defaultTTL ELSE ttl

\* set(key, value, ttl) at the instant t
CacheSet(c, key, value, ttl, t) ==
    [c EXCEPT !.cache =
        MapSet(@, key, [value |-> value,
                        expiresAt |-> t + TtlOrDefault(c, ttl)])]

\* Expired with >= for >
ExpiredEarly(item, t) == t >= item.expiresAt

\* Date.now() > item.expiresAt
Expired(item, t) == t > item.expiresAt

\* get(key) at the instant t: the cache it leaves and the value it returns
CacheGet(c, key, t) ==
    IF key \notin DOMAIN c.cache
    THEN [cache |-> c, value |-> Null]
    ELSE IF Expired(c.cache[key], t)
         THEN [cache |-> [c EXCEPT !.cache = MapDelete(@, key)],
               value |-> Null]
         ELSE [cache |-> c, value |-> c.cache[key].value]

\* delete(key)
CacheDelete(c, key) == [c EXCEPT !.cache = MapDelete(@, key)]

\* clear()
CacheClear(c) == [c EXCEPT !.cache = EmptyMap]

\* cleanup() at the instant t
CacheCleanup(c, t) ==
    [c EXCEPT !.cache =
        [k \in {x \in DOMAIN c.cache : ~Expired(c.cache[x], t)} |->
            c.cache[k]]]

\* the ttl that getCachedUser and getCachedStory hand to withCache
UserTtl == 300
StoryTtl == 1800
\* the arguments of the instances' constructors, in seconds
UserDefaultTTL == 300
StoryDefaultTTL == 1800
\* values of the ttl argument of a direct set(): none, and a short one
TtlArgs == {Absent, UserTtl}

\* what the history keeps of a set(): the value, the instant, the instant
\* up to which the entry is valid and the caller
Written(c, value, ttl, t, by) ==
    <<[value |-> value, at |-> t, until |-> t + TtlOrDefault(c, ttl),
       by |-> by]>>

\* what the history keeps of a call
Op(name, key, result) == [op |-> name, key |-> key, result |-> result]

InitCache ==
    /\ now = 0
    /\ caches = [userCache |-> MemoryCache(UserDefaultTTL),
                 storyCache |-> MemoryCache(StoryDefaultTTL)]
    /\ fetching = <<>>
    /\ written = [k \in Keys |-> <<>>]
    /\ lastOp = Op("none", "", Null)

(* ---------------------------- the actions ------------------------------ *)
Init ==
    /\ concurrency \in Concurrencies
    /\ heap = <<>>
    /\ jobs = <<>>
    /\ processing = <<>>
    /\ completed = <<>>
    /\ failed = <<>>
    /\ isProcessing = FALSE
    /\ handlers = [t \in Types |-> NoHandler]
    /\ timers = <<>>
    /\ awaiting = <<>>
    /\ invocations = <<>>
    /\ waited = <<>>
    /\ thrown = <<>>
    /\ added = <<>>
    /\ started = <<>>
    /\ statuses = <<>>
    /\ InitCache

\* Register that keeps a handler the type already has
RegisterOnce(hs, t, hid) ==
    IF hs[t] = NoHandler THEN [hs EXCEPT ![t] = hid] ELSE hs

\* this.handlers.set(jobType, handler)
Register(hs, t, hid) == [hs EXCEPT ![t] = hid]

\* process(jobType, handler), with a type of types and a handler of hids
ProcessFrom(types, hids) ==
    \E t \in types, hid \in hids :
        /\ handlers' = Register(handlers, t, hid)
        /\ UNCHANGED <<concurrency, heap, jobs, processing, completed,
                       failed, isProcessing, timers, awaiting, invocations,
                       waited, thrown, added, started, statuses,
                       cacheVars>>

Process == ProcessFrom(Types, HandlerIds)

\* add(jobType, data, options), with a type of types and options from pool,
\* at most limit times
AddTyped(types, pool, limit) ==
    \E t \in types, options \in pool :
        /\ Len(heap) < limit
        /\ \E q \in {AddJob(State, t, options)} : Install(q)

AddFrom(pool, limit) == AddTyped(Types, pool, limit)

Add == AddFrom(AllOptions, MaxJobs)

\* the promise of an awaited handler call is fulfilled
Resolve ==
    \E i \in 1..Len(awaiting) :
        \E q \in {SuccessBlock(
                      [State EXCEPT !.awaiting = RemoveAt(awaiting, i)],
                      awaiting[i].job, ResultOf(awaiting[i].handler))} :
            Install(q)

\* the promise of an awaited handler call is rejected
Reject ==
    \E i \in 1..Len(awaiting) :
        \E q \in {Throw([State EXCEPT !.awaiting = RemoveAt(awaiting, i)],
                         awaiting[i].job, BoomMsg)} :
            Install(q)

\* a timer that has run down calls its callback
TimerFire ==
    \E i \in 1..Len(timers) :
        /\ timers[i].left = 0
        /\ \E q \in {TimerCallback(
                           [State EXCEPT !.timers = RemoveAt(timers, i)],
                           timers[i].job)} :
               Install(q)

\* cleanup(maxAge)
Cleanup ==
    \E maxAge \in MaxAges :
        \E q \in {CleanupJobs(State, maxAge).queue} : Install(q)

\* TickMs pass; a timer that has run down fires before more time passes
Tick ==
    /\ \A i \in 1..Len(timers) : timers[i].left > 0
    /\ timers' = [i \in 1..Len(timers) |->
                    [timers[i] EXCEPT !.left = IF @ > TickMs THEN @ - TickMs
                                               ELSE 0]]
    /\ heap' = [j \in 1..Len(heap) |->
                  [heap[j] EXCEPT !.completedAgo = Older(@, AgeCap),
                                  !.failedAgo = Older(@, AgeCap)]]
    /\ waited' = [j \in 1..Len(heap) |->
                    IF heap[j].status = "waiting"
                    THEN Older(waited[j], WaitLimit(j))
                    ELSE waited[j]]
    /\ UNCHANGED <<concurrency, jobs, processing, completed, failed,
                   isProcessing, handlers, awaiting, invocations, thrown,
                   added, started, statuses, cacheVars>>

Next == Process \/ Add \/ Resolve \/ Reject \/ TimerFire \/ Cleanup \/ Tick

\* A new queue, MaxJobs jobs with any options.
Spec == Init /\ [][Next]_vars

(* --------------------------- a loaded queue ---------------------------- *)
\* A queue whose handler is registered when the module is loaded, as the
\* handlers of storyQueue, imageQueue, audioQueue and emailQueue are.
InitLoad ==
    /\ concurrency \in Concurrencies
    /\ heap = <<>>
    /\ jobs = <<>>
    /\ processing = <<>>
    /\ completed = <<>>
    /\ failed = <<>>
    /\ isProcessing = FALSE
    /\ handlers = [t \in Types |-> "hAsync"]
    /\ timers = <<>>
    /\ awaiting = <<>>
    /\ invocations = <<>>
    /\ waited = <<>>
    /\ thrown = <<>>
    /\ added = <<>>
    /\ started = <<>>
    /\ statuses = <<>>
    /\ InitCache

AddLoad == AddFrom(LoadOptions, MaxJobs + 1)

NextLoad == AddLoad \/ Resolve \/ Reject \/ TimerFire \/ Cleanup \/ Tick

\* One job more than in Spec, each with a priority and a single attempt.
SpecLoad == InitLoad /\ [][NextLoad]_vars

(* ------------------------- a queue of two types ------------------------ *)
\* job types of a queue that serves two kinds of job
TwoTypes == {"a", "b"}
\* two async functions and a plain function that throws
TypedHandlers == {"hAsync", "hOther", "hThrow"}
\* values of options.maxAttempts, 0 among them
AttemptOpts == {Absent, 0, 1}
\* options that give at most maxAttempts
TypedOptions == {OptionsOf(Absent, m, Absent) : m \in AttemptOpts}

InitTypes ==
    /\ concurrency \in Concurrencies
    /\ heap = <<>>
    /\ jobs = <<>>
    /\ processing = <<>>
    /\ completed = <<>>
    /\ failed = <<>>
    /\ isProcessing = FALSE
    /\ handlers = [t \in TwoTypes |-> NoHandler]
    /\ timers = <<>>
    /\ awaiting = <<>>
    /\ invocations = <<>>
    /\ waited = <<>>
    /\ thrown = <<>>
    /\ added = <<>>
    /\ started = <<>>
    /\ statuses = <<>>
    /\ InitCache

ProcessTypes == ProcessFrom(TwoTypes, TypedHandlers)

AddTypes == AddTyped(TwoTypes, TypedOptions, MaxJobs)

NextTypes ==
    ProcessTypes \/ AddTypes \/ Resolve \/ Reject \/ TimerFire \/ Cleanup
    \/ Tick

\* A new queue for jobs of two types, whose handlers are registered and
\* replaced while it runs.
SpecTypes == InitTypes /\ [][NextTypes]_vars

(* ------------------------------ fairness ------------------------------- *)
AddPlain == AddFrom(PlainOptions, MaxJobs)

NextPlain ==
    Process \/ AddPlain \/ Resolve \/ Reject \/ TimerFire \/ Cleanup \/ Tick

\* Every handler call settles, the event loop runs a timer that has run
\* down, and time passes.
FairSpec ==
    /\ Init
    /\ [][NextPlain]_vars
    /\ WF_vars(Resolve \/ Reject)
    /\ WF_vars(TimerFire)
    /\ WF_vars(Tick)

(* --------------------------- the cache calls --------------------------- *)
\* number of withCache calls that wait for their fetcher at one time
MaxFetching == 2

\* the instance whose keys key is one of
CacheOf(key) == CHOOSE n \in CacheNames : key \in KeysOf[n]

\* cache.set(key, value, ttl) and cache.set(key, value)
SetCall ==
    \E n \in CacheNames, value \in Values, ttl \in TtlArgs :
        \E key \in KeysOf[n] :
            /\ caches' = [caches EXCEPT
                            ![n] = CacheSet(@, key, value, ttl, now)]
            /\ written' = [written EXCEPT
                             ![key] = Written(caches[n], value, ttl, now,
                                              "set")]
            /\ lastOp' = Op("set", key, Null)
            /\ UNCHANGED <<now, fetching, queueVars>>

\* cache.get(key)
GetCall ==
    \E n \in CacheNames :
        \E key \in KeysOf[n] :
            LET r == CacheGet(caches[n], key, now)
            IN /\ caches' = [caches EXCEPT ![n] = r.cache]
               /\ lastOp' = Op("get", key, r.value)
               /\ UNCHANGED <<now, fetching, written, queueVars>>

\* cache.delete(key)
DeleteCall ==
    \E n \in CacheNames :
        \E key \in KeysOf[n] :
            /\ caches' = [caches EXCEPT ![n] = CacheDelete(@, key)]
            /\ written' = [written EXCEPT ![key] = <<>>]
            /\ lastOp' = Op("delete", key, Null)
            /\ UNCHANGED <<now, fetching, queueVars>>

\* cache.clear()
ClearCall ==
    \E n \in CacheNames :
        /\ caches' = [caches EXCEPT ![n] = CacheClear(@)]
        /\ written' = [k \in Keys |->
                         IF k \in KeysOf[n] THEN <<>> ELSE written[k]]
        /\ lastOp' = Op("clear", "", Null)
        /\ UNCHANGED <<now, fetching, queueVars>>

\* the setInterval callback of the module: cleanup() of every instance
CleanupInterval ==
    /\ caches' = [n \in CacheNames |-> CacheCleanup(caches[n], now)]
    /\ lastOp' = Op("cleanup", "", Null)
    /\ UNCHANGED <<now, fetching, written, queueVars>>

\* withCache(cache, key, fetcher, ttl) up to its return or `await fetcher()`
WithCache(n, key, ttl) ==
    LET r == CacheGet(caches[n], key, now)
    IN /\ caches' = [caches EXCEPT ![n] = r.cache]
       /\ IF r.value # Null
          THEN /\ fetching' = fetching
               /\ lastOp' = Op("withCache", key, r.value)
          ELSE /\ Len(fetching) < MaxFetching
               /\ fetching' = Append(fetching,
                                     [cache |-> n, key |-> key, ttl |-> ttl])
               /\ lastOp' = Op("withCache", key, Pending)
       /\ UNCHANGED <<now, written, queueVars>>

\* getCachedUser(userId, fetcher)
GetCachedUser ==
    \E userId \in UserIds :
        WithCache("userCache", UserCacheKey(userId), UserTtl)

\* getCachedStory(storyId, fetcher)
GetCachedStory ==
    \E storyId \in StoryIds :
        WithCache("storyCache", StoryCacheKey(storyId), StoryTtl)

\* the fetcher's promise is fulfilled with data: withCache goes on with
\* cache.set(key, data, ttl)
FetchResolve ==
    \E i \in 1..Len(fetching), data \in Values :
        LET f == fetching[i]
        IN /\ caches' = [caches EXCEPT
                           ![f.cache] = CacheSet(@, f.key, data, f.ttl, now)]
           /\ written' = [written EXCEPT
                            ![f.key] = Written(caches[f.cache], data, f.ttl,
                                               now, "withCache")]
           /\ fetching' = RemoveAt(fetching, i)
           /\ lastOp' = Op("fetched", f.key, data)
           /\ UNCHANGED <<now, queueVars>>

\* the fetcher's promise is rejected: withCache throws and sets nothing
FetchReject ==
    \E i \in 1..Len(fetching) :
        /\ fetching' = RemoveAt(fetching, i)
        /\ lastOp' = Op("rejected", fetching[i].key, Null)
        /\ UNCHANGED <<now, caches, written, queueVars>>

\* time passes, up to the next instant at which a cache is called
Advance ==
    \E t \in Instants :
        /\ t > now
        /\ now' = t
        /\ lastOp' = Op("time", "", Null)
        /\ UNCHANGED <<caches, fetching, written, queueVars>>

NextCache ==
    SetCall \/ GetCall \/ DeleteCall \/ ClearCall \/ CleanupInterval
    \/ GetCachedUser \/ GetCachedStory \/ FetchResolve \/ FetchReject
    \/ Advance

\* The caches of the module and their callers; the queue is idle.
SpecCache == Init /\ [][NextCache]_vars

(* ======================= the claims of the spec ======================== *)
Ids == 1..Len(heap)

\* the position of x in the array s
Pos(s, x) == CHOOSE i \in 1..Len(s) : s[i] = x

\* x comes before y in s
Before(s, x, y) == InSeq(s, x) /\ InSeq(s, y) /\ Pos(s, x) < Pos(s, y)

\* job j was added with no delay
NoDelay(j) == "delay" \notin DOMAIN added[j]

\* job j has not been in processJob
Fresh(j) == ~InSeq(started, j)

\* the priorities of the jobs of the array s
Priorities(s) == [i \in 1..Len(s) |-> heap[s[i]].priority]

\* three jobs of priorities 1, 5, 3 were added in that order, with no delay,
\* to a queue of concurrency 1
Scenario153 ==
    /\ concurrency = 1
    /\ Len(heap) = 3
    /\ Priorities(<<1, 2, 3>>) = <<1, 5, 3>>
    /\ \A j \in Ids : NoDelay(j)

C1_WaitingStep ==
    \A a, b \in Ids :
        ( /\ heap[a].priority > heap[b].priority
          /\ NoDelay(a) /\ NoDelay(b)
          /\ InSeq(jobs, a) /\ InSeq(jobs, b)
          /\ Fresh(a) /\ Fresh(b)
          /\ InSeq(started', b) )
        => Before(started', a, b)

\* a job added with no delay while a slot is free is started by that add
C1_IdleStep ==
    ( /\ Len(heap') = Len(heap) + 1
      /\ Len(processing) < concurrency
      /\ "delay" \notin DOMAIN added'[Len(heap')] )
    => InSeq(started', Len(heap'))

C2_ConcurrencyBound ==
    /\ Len(processing) <= concurrency
    /\ Len(awaiting) <= concurrency

\* every slot is taken and a job waits for one
C2_Witness == Len(processing) = concurrency /\ Len(jobs) > 0

(* ------------------------------- C3 ------------------------------------ *)
\* C3 as the spec states it: a completed job has its handler's result, and
\* its attempts count every call of its handler, the successful one
\* included.
C3_AttemptsCountCalls ==
    \A j \in Ids :
        heap[j].status = "completed"
        => /\ heap[j].result # Undefined
           /\ heap[j].attempts = invocations[j]

(* ------------------------------- C4 ------------------------------------ *)
\* a failed job: attempts, error, failedAt, and no place in the scheduler
C4_FailedJob(j) ==
    /\ heap[j].attempts = heap[j].maxAttempts
    /\ heap[j].error # Undefined
    /\ heap[j].error = thrown[j]
    /\ heap[j].failedAgo # NoTime
    /\ ~InSeq(jobs, j) /\ ~InSeq(processing, j) /\ ~InSeq(completed, j)
    /\ \A i \in 1..Len(timers) : timers[i].job # j
    /\ \A i \in 1..Len(awaiting) : awaiting[i].job # j

\* job j has been added and has this status
HasStatus(j, status) == j \in Ids /\ heap[j].status = status

\* a step leaves a failed job failed, does not call its handler, and a step
\* in which a job fails puts the job into the failed array
C4_FailedStep ==
    \A j \in Ids :
        /\ heap[j].status = "failed"
           => /\ heap'[j].status = "failed"
              /\ heap'[j].attempts = heap[j].attempts
              /\ heap'[j].error = heap[j].error
              /\ invocations'[j] = invocations[j]
        /\ (heap[j].status # "failed" /\ heap'[j].status = "failed")
           => InSeq(failed', j)

\* C4: a job with maxAttempts >= 1 none of whose handler calls succeeds ends
\* failed, with attempts = maxAttempts, the message of the last error as its
\* error, failedAt set and a place in the failed array; from then on it
\* stays failed, its handler is not called and neither the waiting array nor
\* a timer holds it.
C4_TerminalFailure ==
    /\ [](\A j \in Ids :
            (heap[j].status = "failed" /\ heap[j].maxAttempts >= 1)
            => C4_FailedJob(j))
    /\ [][C4_FailedStep]_vars
    /\ \A j \in 1..MaxJobs :
          [](~HasStatus(j, "completed"))
          => [](j \in Ids => <>HasStatus(j, "failed"))

\* a job has failed at its third attempt, of the default three
C4_Witness ==
    \E j \in Ids :
        /\ heap[j].status = "failed"
        /\ heap[j].attempts = DefaultMaxAttempts
        /\ heap[j].error = BoomMsg
        /\ InSeq(failed, j)

(* ------------------------------- C5 ------------------------------------ *)
\* C5 as the spec states it: a job that was dispatched while its type had no
\* handler is failed.
C5_NoHandlerIsTerminal ==
    \A j \in Ids : thrown[j] = NoHandlerMsg => heap[j].status = "failed"

(* ------------------------------- C6 ------------------------------------ *)
\* the jobs of the array s that are not in the array t
Removed(s, t) == {x \in Ids : InSeq(s, x) /\ ~InSeq(t, x)}

\* C6: cleanup(maxAge) keeps, of the completed and of the failed jobs, those
\* that completed or failed no longer than maxAge ago and removes the
\* others, leaves the waiting and the processing jobs as they are, and
\* returns the number of jobs it removed.
C6_CleanupScope ==
    \A maxAge \in MaxAges :
        LET r == CleanupJobs(State, maxAge)
        IN /\ \A x \in Ids :
                /\ InSeq(r.queue.completed, x)
                   <=> (InSeq(completed, x) /\ heap[x].completedAgo <= maxAge)
                /\ InSeq(r.queue.failed, x)
                   <=> (InSeq(failed, x) /\ heap[x].failedAgo <= maxAge)
           /\ r.queue.jobs = jobs
           /\ r.queue.processing = processing
           /\ r.queue.heap = heap
           /\ r.queue.timers = timers
           /\ r.cleaned = Cardinality(Removed(completed, r.queue.completed))
                          + Cardinality(Removed(failed, r.queue.failed))

\* cleanup has removed one job and kept another, more recent one
C6_Witness ==
    \E a, b \in Ids :
        /\ heap[a].status \in {"completed", "failed"}
        /\ ~InSeq(completed, a) /\ ~InSeq(failed, a)
        /\ InSeq(completed, b) \/ InSeq(failed, b)

(* ------------------------------- C7 ------------------------------------ *)
\* C7: a second cleanup(maxAge) that follows the first with nothing in
\* between (the clock reads the same) removes nothing and returns 0.
C7_CleanupIdempotent ==
    \A maxAge \in MaxAges :
        LET first == CleanupJobs(State, maxAge)
            second == CleanupJobs(first.queue, maxAge)
        IN /\ second.cleaned = 0
           /\ second.queue = first.queue

\* a cleanup would remove a job now
C7_Witness == \E maxAge \in MaxAges : CleanupJobs(State, maxAge).cleaned > 0

(* ------------------------------- C8 ------------------------------------ *)
RECURSIVE Doubling(_)
\* 2000, 4000, 8000, ...
Doubling(i) == IF i <= 1 THEN 2000 ELSE 2 * Doubling(i - 1)

\* C8: after its i-th failed attempt a job that is retried has the delay
\* 2^i * 1000 ms until its timer has fired, and it is in processing for the
\* next attempt only after it has waited that long.
C8_BackoffSchedule ==
    \A j \in Ids :
        /\ (heap[j].status = "waiting" /\ heap[j].attempts >= 1)
           => \/ heap[j].delay = Doubling(heap[j].attempts)
              \/ /\ heap[j].delay = 0
                 /\ waited[j] >= Doubling(heap[j].attempts)
        /\ (heap[j].status = "processing" /\ heap[j].attempts >= 1)
           => waited[j] >= Doubling(heap[j].attempts)

\* a third attempt is under way, 4000 ms after the second failed
C8_Witness ==
    \E j \in Ids :
        /\ heap[j].status = "processing"
        /\ heap[j].attempts = 2
        /\ waited[j] >= 4000

(* ------------------------------- C9 ------------------------------------ *)
\* the number of places of x in the array s
Occurrences(s, x) == Cardinality({i \in 1..Len(s) : s[i] = x})

\* C9 as the spec states it: a job that cleanup has not removed is in
\* exactly one of the four arrays, the one of its status.
C9_OneCollection ==
    \A j \in Ids :
        LET n == Occurrences(jobs, j) + Occurrences(processing, j)
                 + Occurrences(completed, j) + Occurrences(failed, j)
        IN /\ n <= 1
           /\ n = 0 => heap[j].status \in {"completed", "failed"}
           /\ InSeq(jobs, j) => heap[j].status = "waiting"
           /\ InSeq(processing, j) => heap[j].status = "processing"
           /\ InSeq(completed, j) => heap[j].status = "completed"
           /\ InSeq(failed, j) => heap[j].status = "failed"

(* ------------------------------- C10 ----------------------------------- *)
\* a step that starts b has started a before, for a added before b with the
\* same priority, both in the waiting array and not started
C10_Step(a, b) ==
    ( /\ a < b
      /\ heap[a].priority = heap[b].priority
      /\ InSeq(jobs, a) /\ InSeq(jobs, b)
      /\ Fresh(a) /\ Fresh(b)
      /\ InSeq(started', b) )
    => Before(started', a, b)

\* C10 as the spec states it: of two waiting jobs of equal priority the one
\* added first is dispatched first.
C10_FifoTieBreak == [][\A a, b \in Ids : C10_Step(a, b)]_vars

\* C10, amended: of two waiting jobs of equal priority the one added first
\* is dispatched first if it was added with no delay.
C10_FifoTieBreakAmended ==
    [][\A a, b \in Ids : NoDelay(a) => C10_Step(a, b)]_vars

\* jobs 2 and 3, of equal priority and added with no delay, have waited for
\* the single slot; job 2 has it and job 3 waits
C10_Witness ==
    /\ concurrency = 1
    /\ Len(heap) = 3
    /\ heap[2].priority = heap[3].priority
    /\ NoDelay(2) /\ NoDelay(3)
    /\ processing = <<2>>
    /\ jobs = <<3>>

(* ------------------------------- C11 ----------------------------------- *)
\* a call of job j's handler is suspended at its await
InAwaiting(w, j) == \E i \in 1..Len(w) : w[i].job = j

\* the handler calls and the attempts of job j so far, none for a job that
\* has not been added
Calls(j) == IF j \in Ids THEN invocations[j] ELSE 0
Attempts(j) == IF j \in Ids THEN heap[j].attempts ELSE 0

\* in this step the handler of job j (a job of the queue, or the one the
\* step adds) failed: its promise was rejected, or it was called and threw
\* before reaching an await
FailedHere(j) ==
    \/ /\ InAwaiting(awaiting, j)
       /\ ~InAwaiting(awaiting', j)
       /\ heap'[j].status # "completed"
    \/ /\ invocations'[j] = Calls(j) + 1
       /\ ~InAwaiting(awaiting', j)

\* in this step the promise of job k's handler was fulfilled
ResolvedHere(k) ==
    /\ InAwaiting(awaiting, k)
    /\ ~InAwaiting(awaiting', k)
    /\ heap'[k].status = "completed"

\* job k keeps its attempts, result and error, its place in processing,
\* completed or failed, and its status, or is dispatched by the scheduler
KeptApart(k) ==
    /\ heap'[k].attempts = heap[k].attempts
    /\ heap'[k].result = heap[k].result
    /\ heap'[k].error = heap[k].error
    /\ InSeq(processing', k) \/ ~InSeq(processing, k)
    /\ InSeq(completed', k) <=> InSeq(completed, k)
    /\ InSeq(failed', k) <=> InSeq(failed, k)
    /\ \/ heap'[k].status = heap[k].status
       \/ heap[k].status = "waiting" /\ heap'[k].status = "processing"

\* C11: a step in which the handler of a job j throws or rejects adds one to
\* j's attempts and records the error in j; every other job whose own
\* handler neither failed nor succeeded in that step keeps its attempts,
\* result, error and place, its status changing only by being dispatched; an add call in which a
\* handler throws still creates its job; and the scheduler has run: no job
\* is left waiting while a slot is free.
C11_FailureIsolation ==
    [][\A j \in 1..Len(heap') :
         FailedHere(j)
         => /\ heap'[j].attempts = Attempts(j) + 1
            /\ heap'[j].error = BoomMsg
            /\ Len(heap') = Len(heap)
                 \/ (Len(heap') = Len(heap) + 1 /\ added' # added)
            /\ Len(jobs') = 0 \/ Len(processing') = concurrency
            /\ \A k \in Ids \ {j} :
                  (~FailedHere(k) /\ ~ResolvedHere(k)) => KeptApart(k)]_vars

\* one job has failed once while another is still being processed
C11_Witness ==
    \E j, k \in Ids :
        /\ thrown[j] = BoomMsg
        /\ heap[j].attempts = 1
        /\ heap[k].status = "processing"
        /\ heap[k].attempts = 0
        /\ InAwaiting(awaiting, k)

(* ------------------------------- C12 ----------------------------------- *)
\* C12 as the spec states it: when add returns, the handler registered for
\* the type of the job it created has not been called for that job, and the
\* job is neither completed nor failed.
C12_AddDoesNotExecute ==
    [][(Len(heap') = Len(heap) + 1 /\ \A t \in Types : handlers[t] # NoHandler)
       => LET j == Len(heap')
          IN /\ invocations'[j] = 0
             /\ heap'[j].status \notin {"completed", "failed"}]_vars

(* ------------------------------- C13 ----------------------------------- *)
\* what the variables other than handlers are
Rest ==
    <<concurrency, heap, jobs, processing, completed, failed, isProcessing,
      timers, awaiting, invocations, waited, thrown, added, started,
      statuses, cacheVars>>

\* the step calls the handler of job k: it is the handler that the type of
\* k has in the handler map, which is called and either throws or suspends
CallsRegistered(k) ==
    LET h == handlers[heap'[k].type]
    IN /\ h # NoHandler
       /\ handlers' = handlers
       /\ IF h = "hThrow"
          THEN thrown'[k] = BoomMsg /\ ~InAwaiting(awaiting', k)
          ELSE \E i \in 1..Len(awaiting') :
                  awaiting'[i] = [job |-> k, handler |-> h]

\* C13: registering a handler for a type gives the type that handler,
\* whatever it had, and leaves the other types and the rest of the queue as
\* they are; every call of a job's handler, at a first attempt or a retry,
\* calls the handler its type has in the map at that moment.
C13_LastRegistrationWins ==
    /\ [](\A t \in DOMAIN handlers, hid \in TypedHandlers :
            LET hs == Register(handlers, t, hid)
            IN /\ hs[t] = hid
               /\ \A u \in DOMAIN handlers \ {t} : hs[u] = handlers[u])
    /\ [][handlers' # handlers
          => /\ Rest' = Rest
             /\ Cardinality({t \in DOMAIN handlers :
                                handlers'[t] # handlers[t]}) = 1]_vars
    /\ [][\A k \in 1..Len(heap') :
            invocations'[k] = Calls(k) + 1 => CallsRegistered(k)]_vars

\* a job first dispatched while its type had no handler is at its second
\* attempt, in a call of the handler registered since, and the other type
\* has a different handler
C13_Witness ==
    \E k \in Ids :
        /\ thrown[k] = NoHandlerMsg
        /\ heap[k].attempts = 1
        /\ invocations[k] = 1
        /\ \E i \in 1..Len(awaiting) :
              awaiting[i] = [job |-> k, handler |-> "hOther"]
        /\ \E u \in DOMAIN handlers : handlers[u] = "hAsync"

(* ------------------------------- C14 ----------------------------------- *)
\* the number of jobs that the array s holds
Members(s) == Cardinality({j \in Ids : InSeq(s, j)})

Cleaned(j) ==
    /\ heap[j].status \in {"completed", "failed"}
    /\ ~InSeq(completed, j)
    /\ ~InSeq(failed, j)

\* C15 as the spec states it: getJob finds every job that was added and
\* that cleanup has not removed.
C15_LookupFindsJob ==
    \A j \in Ids : ~Cleaned(j) => GetJob(State, heap[j].id) = Found(heap[j])

(* ------------------------------- C16 ----------------------------------- *)
\* the maxAttempts of job j as the caller gave it: the value in the options
\* of add, or 3
GivenMaxAttempts(j) ==
    IF "maxAttempts" \in DOMAIN added[j] THEN added[j].maxAttempts
    ELSE DefaultMaxAttempts

\* C16 as the spec states it: a job whose type has a handler never has more
\* attempts than the maxAttempts it was given, 0 included, and its handler
\* is not called more often than that.
C16_AttemptCeiling ==
    \A j \in Ids :
        thrown[j] # NoHandlerMsg
        => /\ heap[j].attempts <= GivenMaxAttempts(j)
           /\ invocations[j] <= GivenMaxAttempts(j)

(* ------------------------------- C17 ----------------------------------- *)
\* C17 as the spec states it: the waiting array is sorted by descending
\* priority, so that the job at its head, which is the next to be
\* dispatched, has the highest priority of the jobs that wait.
C17_WaitingSorted ==
    \A i, k \in 1..Len(jobs) :
        i < k => heap[jobs[i]].priority >= heap[jobs[k]].priority

(* ------------------------------- C18 ----------------------------------- *)
\* job j is on a timer, waiting out a delay
OnTimer(j) == \E i \in 1..Len(timers) : timers[i].job = j

\* C18: a job that waits out a delay, initial or after a failed attempt, is
\* not in processing and no call of its handler is in flight, so it takes no
\* slot; and no turn ends with a job in the waiting array while a slot is
\* free: the scheduler pass goes on behind a delayed job.
C18_DelayDoesNotBlock ==
    /\ \A j \in Ids :
          OnTimer(j) => /\ ~InSeq(processing, j)
                        /\ ~InAwaiting(awaiting, j)
                        /\ heap[j].status = "waiting"
    /\ Len(processing) < concurrency => Len(jobs) = 0

\* on a queue of concurrency 1 a job that has just failed is on its timer,
\* and the job that waited behind it is being processed
C18_Witness ==
    \E a, b \in Ids :
        /\ concurrency = 1
        /\ OnTimer(a)
        /\ heap[a].attempts = 1
        /\ waited[a] = 0
        /\ started = <<a, b>>
        /\ InSeq(processing, b)

(* ------------------------------- C19 ----------------------------------- *)
\* C19 as the spec states it: a job added with a delay d is eligible to run
\* d ms after the add call: once it has waited d ms since it was added, no
\* timer that still has time to run holds it back.
C19_DelayFromEnqueue ==
    \A i \in 1..Len(timers) :
        LET j == timers[i].job
        IN (heap[j].attempts = 0 /\ timers[i].left > 0)
           => waited[j] < added[j].delay

(* ------------------------------- C20 ----------------------------------- *)
\* C20: a job whose handler call has not settled is in processing, with
\* status processing; and while concurrency calls are in flight and none of
\* them settles, no step (add, timer, cleanup, process, time) dispatches a
\* job: processing stays as it is and no handler is called.
C20_HungSlots ==
    /\ [](\A j \in Ids :
            InAwaiting(awaiting, j)
            => InSeq(processing, j) /\ heap[j].status = "processing")
    /\ [][(Len(awaiting) = concurrency /\ awaiting' = awaiting)
          => /\ processing' = processing
             /\ started' = started
             /\ \A j \in 1..Len(heap') : invocations'[j] = Calls(j)]_vars

\* every slot is held by a call in flight, and a job whose retry timer has
\* fired waits for a slot
C20_Witness ==
    /\ Len(awaiting) = concurrency
    /\ \E j \in Ids :
          /\ InSeq(jobs, j)
          /\ heap[j].attempts >= 1
          /\ heap[j].delay = 0

(* ------------------------------- C22 ----------------------------------- *)
\* the moves of the state machine of a job
Moves ==
    {<<"waiting", "processing">>, <<"processing", "completed">>,
     <<"processing", "failed">>, <<"processing", "waiting">>}

\* how often the status of job j went from processing back to waiting
Retries(j) ==
    Cardinality({i \in 1..(Len(statuses[j]) - 1) :
                    /\ statuses[j][i] = "processing"
                    /\ statuses[j][i + 1] = "waiting"})

\* the values the status of every job has had, one assignment after the
\* other, follow the moves of the state machine from waiting on; the job has
\* failed once for each retry and once more if it ended failed, so that
\* every retry followed a failure, and the last retry, the one after failure
\* number Retries(j), found attempts < maxAttempts
StatusHistory ==
    \A j \in Ids :
        /\ statuses[j][1] = "waiting"
        /\ statuses[j][Len(statuses[j])] = heap[j].status
        /\ \A i \in 1..(Len(statuses[j]) - 1) :
               <<statuses[j][i], statuses[j][i + 1]>> \in Moves
        /\ heap[j].attempts =
               Retries(j) + (IF heap[j].status = "failed" THEN 1 ELSE 0)
        /\ Retries(j) > 0 => Retries(j) < heap[j].maxAttempts

\* a step leaves the status of a completed or failed job as it is and does
\* not call its handler
AbsorbingStep ==
    \A j \in Ids :
        heap[j].status \in {"completed", "failed"} =>
            /\ heap'[j].status = heap[j].status
            /\ statuses'[j] = statuses[j]
            /\ invocations'[j] = invocations[j]

\* C22: the status of a job changes only from waiting to processing and
\* from processing to completed, to failed or, after a failure that left
\* attempts < maxAttempts, back to waiting; completed and failed are never
\* left and no handler call follows them; no job goes from waiting to
\* completed or failed without having been processing
C22_JobStateMachine == []StatusHistory /\ [][AbsorbingStep]_vars

\* one job was retried and then completed, another failed in the turn that
\* dispatched it
C22_Witness ==
    \E j, k \in Ids :
        /\ statuses[j] = <<"waiting", "processing", "waiting", "processing",
                           "completed">>
        /\ statuses[k] = <<"waiting", "processing", "failed">>
        /\ thrown[k] = NoHandlerMsg

(* ------------------------------- C23 ----------------------------------- *)
\* C23 as the spec states it: the four counts of getStats add up to the
\* number of jobs that were added less the number that cleanup has removed,
\* also while a job waits out a delay or a backoff.
C23_JobConservation ==
    LET stats == GetStats(State)
    IN stats.waiting + stats.processing + stats.completed + stats.failed
         = Len(heap) - Cardinality({j \in Ids : Cleaned(j)})

(* ------------------------------- C24 ----------------------------------- *)
\* C24: between two turns no scheduler pass is running, and the waiting
\* array is not left non-empty while processing holds fewer jobs than
\* concurrency: the pass that a turn runs (after an add, a completion, a
\* failure, a timer) goes on until the array is empty or every slot is
\* taken, also when a handler that throws synchronously re-enters
\* startProcessing inside the pass.
C24_NoLostWakeup ==
    /\ isProcessing = FALSE
    /\ ~(Len(jobs) > 0 /\ Len(processing) < concurrency)

\* on a queue of concurrency 1 two jobs have failed, the second by a
\* synchronous throw of its handler inside the pass that dispatched it, which
\* re-entered startProcessing: both are on their timers, the slot is free
\* and nothing is left in the waiting array
C24_Witness ==
    \E j, k \in Ids :
        /\ concurrency = 1
        /\ started = <<j, k>>
        /\ handlers[heap[k].type] = "hThrow"
        /\ thrown[k] = BoomMsg
        /\ invocations[k] = 1
        /\ OnTimer(j) /\ waited[j] = 0
        /\ OnTimer(k) /\ waited[k] = 0
        /\ Len(processing) < concurrency
        /\ jobs = <<>>

(* ------------------------------- C25 ----------------------------------- *)
\* every job that was added is completed or failed, nothing waits, nothing
\* is processed and no timer is pending
Quiescent ==
    /\ \A j \in Ids : heap[j].status \in {"completed", "failed"}
    /\ jobs = <<>>
    /\ processing = <<>>
    /\ timers = <<>>
    /\ awaiting = <<>>

\* C25: when finitely many jobs are added, every handler call settles and
\* every timer fires, then from some turn on every added job is completed or
\* failed, the waiting and the processing array are empty and no timer is
\* pending.
C25_EventualCompletion == <>[]Quiescent

\* both jobs are done, one of them completed on its second attempt and the
\* other failed, and the queue is empty
C25_Witness ==
    /\ Quiescent
    /\ Len(heap) = MaxJobs
    /\ \E j, k \in Ids :
          /\ heap[j].status = "completed" /\ heap[j].attempts = 1
          /\ heap[k].status = "failed"

(* ------------------------------- C26 ----------------------------------- *)
\* the number of handler calls of job j that are in flight
InFlight(j) == Cardinality({i \in 1..Len(awaiting) : awaiting[i].job = j})

\* the number of timers that are pending for job j
TimersOf(j) == Cardinality({i \in 1..Len(timers) : timers[i].job = j})

\* C26: a job never has two handler calls in flight, is never twice in the
\* waiting or in the processing array, has at most one timer pending and,
\* while its timer is pending, is in none of the arrays and has no handler
\* call in flight.
C26_SingleFlight ==
    \A j \in Ids :
        /\ InFlight(j) <= 1
        /\ Occurrences(jobs, j) <= 1
        /\ Occurrences(processing, j) <= 1
        /\ TimersOf(j) <= 1
        /\ TimersOf(j) = 1 =>
              /\ Occurrences(jobs \o processing \o completed \o failed, j) = 0
              /\ InFlight(j) = 0

\* the second handler call of a job is in flight, the only one, while another
\* job that has failed is on its timer
C26_Witness ==
    \E j, k \in Ids :
        /\ invocations[j] = 2
        /\ InFlight(j) = 1
        /\ Occurrences(processing, j) = 1
        /\ heap[k].attempts >= 1
        /\ TimersOf(k) = 1

(* ------------------------------- C27 ----------------------------------- *)
\* C27 as the spec states it: a completed job has a result and a
\* completedAt and carries no error, also when it completed after failed
\* attempts; a failed job has an error and a failedAt and carries no result.
\* (Stated for the jobs whose attempts failed in their handler, if at all.)
C27_OutcomeFields ==
    \A j \in Ids :
        /\ (InSeq(completed, j) /\ thrown[j] # NoHandlerMsg) =>
              /\ heap[j].result # Undefined
              /\ heap[j].completedAgo # NoTime
              /\ heap[j].error = Undefined
        /\ InSeq(failed, j) =>
              /\ heap[j].error # Undefined
              /\ heap[j].failedAgo # NoTime
              /\ heap[j].result = Undefined

(* ------------------------------- C28 ----------------------------------- *)
\* a job whose delay field is positive is waiting: it is not in processing
\* and none of its handler calls is in flight
DelayedWaits ==
    \A j \in Ids :
        heap[j].delay > 0 =>
            /\ heap[j].status = "waiting"
            /\ ~InSeq(processing, j)
            /\ InFlight(j) = 0

\* a step that dispatches a job whose delay field is d > 0 is the firing of
\* a timer of that job that has run down, d ms or more after the job was
\* added or failed
DispatchStep ==
    \A j \in Ids :
        (heap[j].delay > 0 /\ statuses'[j] # statuses[j]) =>
            /\ \E i \in 1..Len(timers) :
                  timers[i].job = j /\ timers[i].left = 0
            /\ waited[j] >= heap[j].delay

\* C28: a job whose delay field is d > 0, from the options of add or from
\* the backoff of a retry, is not moved to processing before a timer of d ms
\* for that job has fired, whatever else is added, completes or fires.
C28_DelayRespected == []DelayedWaits /\ [][DispatchStep]_vars

\* a job that was added with a delay is processed for the first time after
\* it waited that long, and a job that failed is processed again after its
\* backoff
C28_Witness ==
    \E j, k \in Ids :
        /\ ~NoDelay(j)
        /\ heap[j].attempts = 0
        /\ heap[j].status = "processing"
        /\ waited[j] = added[j].delay
        /\ heap[k].attempts = 1
        /\ heap[k].status = "processing"
        /\ waited[k] = RetryDelay(1)

(* ------------------------------- C29 ----------------------------------- *)
\* the step is a call of get(key) that returns result
Gets(key, result) == lastOp' = Op("get", key, result)

\* what get(key) may return in a step, given the entry of key before the
\* step and the last set() of key that no delete() or clear() has followed
GetStep ==
    \A key \in Keys, result \in Values \cup {Null} :
        Gets(key, result) =>
            LET map == caches[CacheOf(key)].cache
                after == caches'[CacheOf(key)].cache
            IN /\ result # Null =>
                     /\ key \in DOMAIN map
                     /\ ~(map[key].expiresAt < now)
                     /\ written[key] # <<>>
                     /\ result = written[key][1].value
               /\ (key \in DOMAIN map /\ map[key].expiresAt < now) =>
                     /\ result = Null
                     /\ key \notin DOMAIN after
               /\ (written[key] # <<>> /\ ~(written[key][1].until < now)) =>
                     result = written[key][1].value

\* C29: get(key) returns no value whose expiresAt is earlier than the
\* current time: for such an entry it returns null and deletes the entry;
\* for a key that was set and has neither expired nor been deleted since,
\* it returns the last value that was set.
C29_CacheExpiry == [][GetStep]_vars

\* get has returned the value set for a key at the very instant the entry
\* expires, and the entry of another instance has expired and is gone
C29_Witness ==
    \E key \in Keys :
        /\ lastOp = Op("get", key, "v2")
        /\ written[key] # <<>>
        /\ written[key][1].value = "v2"
        /\ written[key][1].until = now
        /\ \E other \in Keys \ {key} :
              /\ written[other] # <<>>
              /\ written[other][1].until < now
              /\ other \notin DOMAIN caches[CacheOf(other)].cache

(* ------------------------------- C30 ----------------------------------- *)
\* the lifetimes the spec gives to a cached user and to a cached story, ms
UserLifetime == 5 * 60 * 1000
StoryLifetime == 30 * 60 * 1000
Lifetime(key) ==
    IF key \in KeysOf["userCache"] THEN UserLifetime ELSE StoryLifetime

\* a call of getCachedUser or getCachedStory for a key whose value an
\* earlier call fetched and stored less than the lifetime ago, and that
\* nothing has set, deleted or cleared since, returns the stored value and
\* does not call the fetcher
CachedStep ==
    \A key \in Keys, result \in Values \cup {Pending} :
        (/\ lastOp' = Op("withCache", key, result)
         /\ written[key] # <<>>
         /\ written[key][1].by = "withCache"
         /\ now - written[key][1].at < Lifetime(key))
        => result = written[key][1].value

\* C30 as the spec states it: after getCachedUser has fetched and stored a
\* value, every further call for the same user within 5 minutes returns the
\* stored value and does not call the fetcher; likewise within 30 minutes
\* for getCachedStory.
C30_CacheLifetime == [][CachedStep]_vars

=============================================================================
